---- MODULE Spec2Model ----
(***************************************************************************)
(* jentool: a command line tool that resolves a profile from an INI file,  *)
(* builds a Jenkins client and runs one sub-command against the server.    *)
(* One run of main() is modelled as a state machine whose steps are the    *)
(* blocking calls of the program (argument parsing, profile resolution,    *)
(* each remote round trip together with the prints adjacent to it).        *)
(***************************************************************************)
EXTENDS Integers, Sequences, FiniteSets, TLC

VARIABLES
    args,        \* the argparse namespace of this run
    config,      \* the file at args.config_file, as configparser reports it
    server,      \* the remote Jenkins: [jobs, disabled]
    server0,     \* the server as it was when the run started (history)
    pc,          \* position of the run
    exitStatus,  \* process exit status, -1 while running
    uncaught,    \* TRUE once an exception propagated out of main()
    stdout,      \* the lines printed so far
    calls,       \* the remote calls made so far, with their results (history)
    client,      \* the jenkins.Jenkins instance of the handler, or NoClient
    profile,     \* result of the last _get_profile call
    configReads, \* number of os.path.exists() checks of the config file
    items,       \* the collection the handler iterates over
    idx,         \* index into items of the element being handled
    rows         \* rows added to the PrettyTable

vars == <<args, config, server, server0, pc, exitStatus, uncaught, stdout,
          calls, client, profile, configReads, items, idx, rows>>

----------------------------------------------------------------------------
(* Bounds and input domains *)

MaxJobs == 2
MaxInfos == 1

Alphabet == {"a", "b"}
NameLens == 1..2
PatLens == 1..2
SubPatLens == 1..2
ReplLens == 1..1

SeqsOf(S, lens) == UNION {[1..n -> S] : n \in lens}

JobNames == SeqsOf(Alphabet, NameLens)
\* a pattern is a sequence of tokens: a literal character or "." (any char)
Tokens == Alphabet \cup {"."}
Patterns == SeqsOf(Tokens, PatLens)
SubPatterns == SeqsOf(Tokens, SubPatLens)
Repls == SeqsOf(Alphabet, ReplLens)

Keys == {"url", "user", "password"}
SectionNames == {"default", "prod"}

JobCommands == {"jobs-disable", "jobs-delete", "jobs-list", "jobs-config",
                "jobs-copy"}
TableCommands == {"nodes-list", "jobs-failing", "jobs-unstable",
                  "builds-running"}
SubCommands == JobCommands \cup TableCommands

NoClient == [url |-> <<>>, user |-> <<>>, password |-> <<>>]
NoProfile == [ok |-> FALSE, err |-> "none", field |-> "none", msg |-> <<>>,
              triple |-> NoClient]

----------------------------------------------------------------------------
(* The config store *)

\* sys.exit(1) after printing msg
ConfigError(err, field, msg) ==
    [ok |-> FALSE, err |-> err, field |-> field, msg |-> msg,
     triple |-> NoClient]

\* the value configparser returns for key k of section s
Value(s, k) == <<s, k>>

_get_profile_nopassword(a, c) ==
    LET p == a.config_profile IN
    IF ~c.exists
    THEN ConfigError("FileMissing", "none", <<"does not exist">>)
    ELSE IF p \notin DOMAIN c.sections
    THEN ConfigError("SectionMissing", "none", <<"can not find section", p>>)
    ELSE IF "url" \notin c.sections[p]
    THEN ConfigError("FieldMissing", "url", <<"url not in profile", p>>)
    ELSE IF "user" \notin c.sections[p]
    THEN ConfigError("FieldMissing", "user", <<"user not in profile", p>>)
    ELSE [ok |-> TRUE, err |-> "none", field |-> "none", msg |-> <<>>,
          triple |-> [url |-> Value(p, "url"), user |-> Value(p, "user"),
                      password |-> Value(p, "password")]]

_get_profile_userfirst(a, c) ==
    LET p == a.config_profile IN
    IF ~c.exists
    THEN ConfigError("FileMissing", "none", <<"does not exist">>)
    ELSE IF p \notin DOMAIN c.sections
    THEN ConfigError("SectionMissing", "none", <<"can not find section", p>>)
    ELSE IF "user" \notin c.sections[p]
    THEN ConfigError("FieldMissing", "user", <<"user not in profile", p>>)
    ELSE IF "url" \notin c.sections[p]
    THEN ConfigError("FieldMissing", "url", <<"url not in profile", p>>)
    ELSE IF "password" \notin c.sections[p]
    THEN ConfigError("FieldMissing", "password",
                     <<"password not in profile", p>>)
    ELSE [ok |-> TRUE, err |-> "none", field |-> "none", msg |-> <<>>,
          triple |-> [url |-> Value(p, "url"), user |-> Value(p, "user"),
                      password |-> Value(p, "password")]]

_get_profile(a, c) ==
    LET p == a.config_profile IN
    IF ~c.exists
    THEN ConfigError("FileMissing", "none", <<"does not exist">>)
    ELSE IF p \notin DOMAIN c.sections
    THEN ConfigError("SectionMissing", "none", <<"can not find section", p>>)
    ELSE IF "url" \notin c.sections[p]
    THEN ConfigError("FieldMissing", "url", <<"url not in profile", p>>)
    ELSE IF "user" \notin c.sections[p]
    THEN ConfigError("FieldMissing", "user", <<"user not in profile", p>>)
    ELSE IF "password" \notin c.sections[p]
    THEN ConfigError("FieldMissing", "password",
                     <<"password not in profile", p>>)
    ELSE [ok |-> TRUE, err |-> "none", field |-> "none", msg |-> <<>>,
          triple |-> [url |-> Value(p, "url"), user |-> Value(p, "user"),
                      password |-> Value(p, "password")]]

\* _jenkins(url, user, password): builds the client, no request is sent
_jenkins(triple) == triple

----------------------------------------------------------------------------
(* Regular expressions (the re module, on the token patterns above) *)

TokMatches(t, c) == t = "." \/ t = c

\* the pattern matches the characters of s starting at position i
MatchAt(p, s, i) ==
    /\ i + Len(p) - 1 <= Len(s)
    /\ \A k \in 1..Len(p) : TokMatches(p[k], s[i + k - 1])

\* regex.match(s): anchored at the start of s only
re_match(p, s) == MatchAt(p, s, 1)

RECURSIVE SubFrom(_, _, _, _)
SubFrom(pat, repl, s, i) ==
    IF i > Len(s)
    THEN IF Len(pat) = 0 THEN repl ELSE <<>>
    ELSE IF MatchAt(pat, s, i)
    THEN IF Len(pat) = 0
         THEN repl \o <<s[i]>> \o SubFrom(pat, repl, s, i + 1)
         ELSE repl \o SubFrom(pat, repl, s, i + Len(pat))
    ELSE <<s[i]>> \o SubFrom(pat, repl, s, i + 1)

\* re.sub(pat, repl, s): every non-overlapping match replaced, left to right
re_sub(pat, repl, s) == SubFrom(pat, repl, s, 1)

----------------------------------------------------------------------------
(* The remote server and the values it hands out *)

NodeNames == {<<"n", c>> : c \in Alphabet}
Builds == {[name |-> <<"a">>, number |-> <<"1">>],
           [name |-> <<"a">>, number |-> <<"2">>]}
Infos == [color : {"red", "blue"}, score : {0, 50},
          lastUnstable : {0, 1, 2}, lastBuild : {1, 2}]
Ages == {0, 10}

\* every ordering of the elements of S
Orderings(S) ==
    {f \in [1..Cardinality(S) -> S] : \A i, j \in 1..Cardinality(S) :
                                         i # j => f[i] # f[j]}
SubsetOrderings(S) == UNION {Orderings(T) : T \in SUBSET S}

Call(op, a, b, ret) == [op |-> op, a |-> a, b |-> b, ret |-> ret]

Min(S) == CHOOSE x \in S : \A y \in S : x <= y

\* the table printed by print(t)
Table(r) == <<"table", r>>

----------------------------------------------------------------------------
(* Handler helpers *)

\* regex.match(job['fullname']) of the job handlers
Selected(a, name) == re_match(a.job_name, name)

\* job_name_new of jobs_copy
job_name_new(a, name) == re_sub(a.job_name_pattern, a.job_name_repl, name)

ShouldCopy_always(name, new) == TRUE

\* if job['fullname'] != job_name_new
ShouldCopy(name, new) == name # new

\* the element makes the loop body reach a remote call or a print
Active(a, name) ==
    /\ Selected(a, name)
    /\ a.cmd = "jobs-copy" => ShouldCopy(name, job_name_new(a, name))

\* the for loop: first index from i on whose body does something
NextActive(a, seq, i) ==
    LET S == {k \in i..Len(seq) : Active(a, seq[k])}
    IN  IF S = {} THEN Len(seq) + 1 ELSE Min(S)

JobExists_stale(srv, seq, name) == \E k \in 1..Len(seq) : seq[k] = name

\* jenkins.job_exists(name): asks the server
JobExists(srv, seq, name) == name \in srv.jobs

SkipEnabled_inverted(disabled) == disabled = TRUE

\* if job_info['disabled'] is False: continue
SkipEnabled(disabled) == disabled = FALSE

Bool(b) == IF b THEN "true" ELSE "false"

\* sys.exit(status)
Exit(status) ==
    /\ pc' = "exited"
    /\ exitStatus' = status

Raise_swallowed(call) ==
    /\ calls' = Append(calls, call)
    /\ uncaught' = FALSE
    /\ Exit(0)

\* a remote call raises: nothing catches it, the interpreter prints the
\* traceback and exits with status 1
Raise(call) ==
    /\ calls' = Append(calls, call)
    /\ uncaught' = TRUE
    /\ Exit(1)

\* a remote call returned
Returned(call) ==
    /\ calls' = Append(calls, call)
    /\ UNCHANGED <<uncaught, exitStatus>>

InBody == pc = "loop" /\ idx <= Len(items)

----------------------------------------------------------------------------
(* main() *)

\* parser.parse_args(): -h prints the help and exits 0, a usage error exits 2
ParseArgs ==
    /\ pc = "start"
    /\ IF args.parse = "help"
       THEN stdout' = Append(stdout, <<"help">>) /\ Exit(0)
       ELSE IF args.parse = "error"
       THEN UNCHANGED stdout /\ Exit(2)
       ELSE UNCHANGED <<stdout, exitStatus>> /\ pc' = "main_profile"
    /\ UNCHANGED <<args, config, server, server0, uncaught, calls, client,
                   profile, configReads, items, idx, rows>>

\* url, user, password = _get_profile(args) in main
MainGetProfile ==
    /\ pc = "main_profile"
    /\ LET r == _get_profile(args, config) IN
       /\ profile' = r
       /\ configReads' = configReads + 1
       /\ IF r.ok
          THEN UNCHANGED <<stdout, exitStatus>> /\ pc' = "dispatch"
          ELSE stdout' = Append(stdout, r.msg) /\ Exit(1)
    /\ UNCHANGED <<args, config, server, server0, uncaught, calls, client,
                   items, idx, rows>>

\* the second parse_args, the 'func' test and the call of args.func
Dispatch ==
    /\ pc = "dispatch"
    /\ IF args.cmd = "none"
       THEN stdout' = Append(stdout, <<"help">>) /\ Exit(0)
       ELSE UNCHANGED <<stdout, exitStatus>> /\ pc' = "handler_profile"
    /\ UNCHANGED <<args, config, server, server0, uncaught, calls, client,
                   profile, configReads, items, idx, rows>>

\* the first lines of every handler: _get_profile, then _jenkins
HandlerSetup ==
    /\ pc = "handler_profile"
    /\ LET r == _get_profile(args, config) IN
       /\ profile' = r
       /\ configReads' = configReads + 1
       /\ IF r.ok
          THEN /\ client' = _jenkins(r.triple)
               /\ UNCHANGED <<stdout, exitStatus>>
               /\ pc' = "fetch"
          ELSE /\ stdout' = Append(stdout, r.msg)
               /\ UNCHANGED client
               /\ Exit(1)
    /\ UNCHANGED <<args, config, server, server0, uncaught, calls, items,
                   idx, rows>>

\* the handler returned: print(t) of the table handlers, then sys.exit(0)
Finish ==
    /\ pc = "loop"
    /\ idx > Len(items)
    /\ stdout' = IF args.cmd \in TableCommands
                 THEN Append(stdout, Table(rows)) ELSE stdout
    /\ Exit(0)
    /\ UNCHANGED <<args, config, server, server0, uncaught, calls, client,
                   profile, configReads, items, idx, rows>>

----------------------------------------------------------------------------
(* The job handlers *)

\* jenkins.get_jobs() of the five job handlers
GetJobs ==
    /\ pc = "fetch"
    /\ args.cmd \in JobCommands
    /\ \/ /\ Raise(Call("get_jobs", <<>>, <<>>, "error"))
          /\ UNCHANGED <<items, idx>>
       \/ \E seq \in Orderings(server.jobs) :
             /\ Returned(Call("get_jobs", <<>>, <<>>, "ok"))
             /\ items' = seq
             /\ idx' = NextActive(args, seq, 1)
             /\ pc' = "loop"
    /\ UNCHANGED <<args, config, server, server0, stdout, client, profile,
                   configReads, rows>>

\* loop body of jobs_disable: the status line, then disable_job
jobs_disable ==
    /\ InBody
    /\ args.cmd = "jobs-disable"
    /\ LET job == items[idx] IN
       /\ stdout' = Append(stdout, <<"Disable job", job>>)
       /\ \/ /\ Raise(Call("disable_job", job, <<>>, "error"))
             /\ UNCHANGED <<server, idx>>
          \/ /\ Returned(Call("disable_job", job, <<>>, "ok"))
             /\ server' = [server EXCEPT !.disabled = @ \cup {job}]
             /\ idx' = NextActive(args, items, idx + 1)
             /\ pc' = "loop"
    /\ UNCHANGED <<args, config, server0, client, profile, configReads,
                   items, rows>>

\* loop body of jobs_delete with --disabled-only: get_job_info and the test
jobs_delete_info ==
    /\ InBody
    /\ args.cmd = "jobs-delete"
    /\ args.disabled_only
    /\ LET job == items[idx] IN
       \/ /\ Raise(Call("get_job_info", job, <<>>, "error"))
          /\ UNCHANGED idx
       \/ LET disabled == job \in server.disabled IN
          /\ Returned(Call("get_job_info", job, <<>>, Bool(disabled)))
          /\ IF SkipEnabled(disabled)
             THEN idx' = NextActive(args, items, idx + 1) /\ pc' = "loop"
             ELSE UNCHANGED idx /\ pc' = "delete"
    /\ UNCHANGED <<args, config, server, server0, stdout, client, profile,
                   configReads, items, rows>>

jobs_delete_printfirst ==
    /\ \/ pc = "delete"
       \/ InBody /\ args.cmd = "jobs-delete" /\ ~args.disabled_only
    /\ LET job == items[idx] IN
       /\ stdout' = Append(stdout, <<"Deleted job", job>>)
       /\ \/ /\ Raise(Call("delete_job", job, <<>>, "error"))
             /\ UNCHANGED <<server, idx>>
          \/ /\ Returned(Call("delete_job", job, <<>>, "ok"))
             /\ server' = [jobs |-> server.jobs \ {job},
                           disabled |-> server.disabled \ {job}]
             /\ idx' = NextActive(args, items, idx + 1)
             /\ pc' = "loop"
    /\ UNCHANGED <<args, config, server0, client, profile, configReads,
                   items, rows>>

\* loop body of jobs_delete: delete_job, then the status line
jobs_delete ==
    /\ \/ pc = "delete"
       \/ InBody /\ args.cmd = "jobs-delete" /\ ~args.disabled_only
    /\ LET job == items[idx] IN
       \/ /\ Raise(Call("delete_job", job, <<>>, "error"))
          /\ UNCHANGED <<server, stdout, idx>>
       \/ /\ Returned(Call("delete_job", job, <<>>, "ok"))
          /\ server' = [jobs |-> server.jobs \ {job},
                        disabled |-> server.disabled \ {job}]
          /\ stdout' = Append(stdout, <<"Deleted job", job>>)
          /\ idx' = NextActive(args, items, idx + 1)
          /\ pc' = "loop"
    /\ UNCHANGED <<args, config, server0, client, profile, configReads,
                   items, rows>>

\* loop body of jobs_list
jobs_list ==
    /\ InBody
    /\ args.cmd = "jobs-list"
    /\ stdout' = Append(stdout, <<"job", items[idx]>>)
    /\ idx' = NextActive(args, items, idx + 1)
    /\ UNCHANGED <<args, config, server, server0, pc, exitStatus, uncaught,
                   calls, client, profile, configReads, items, rows>>

\* loop body of jobs_config: print(jenkins.get_job_config(name))
jobs_config ==
    /\ InBody
    /\ args.cmd = "jobs-config"
    /\ LET job == items[idx] IN
       \/ /\ Raise(Call("get_job_config", job, <<>>, "error"))
          /\ UNCHANGED <<stdout, idx>>
       \/ /\ Returned(Call("get_job_config", job, <<>>, "ok"))
          /\ stdout' = Append(stdout, <<"config", job>>)
          /\ idx' = NextActive(args, items, idx + 1)
          /\ pc' = "loop"
    /\ UNCHANGED <<args, config, server, server0, client, profile,
                   configReads, items, rows>>

\* loop body of jobs_copy up to the copy: job_exists and the line printed
jobs_copy_exists ==
    /\ InBody
    /\ args.cmd = "jobs-copy"
    /\ LET job == items[idx]
           new == job_name_new(args, job)
       IN  \/ /\ Raise(Call("job_exists", new, job, "error"))
              /\ UNCHANGED <<stdout, idx>>
           \/ LET exists == JobExists(server, items, new) IN
              /\ Returned(Call("job_exists", new, job, Bool(exists)))
              /\ IF exists
                 THEN /\ stdout' = Append(stdout, <<"exists", new>>)
                      /\ idx' = NextActive(args, items, idx + 1)
                      /\ pc' = "loop"
                 ELSE /\ stdout' = Append(stdout, <<"Copy job", job, new>>)
                      /\ UNCHANGED idx
                      /\ pc' = "copy"
    /\ UNCHANGED <<args, config, server, server0, client, profile,
                   configReads, items, rows>>

\* jenkins.copy_job(job['fullname'], job_name_new)
jobs_copy ==
    /\ pc = "copy"
    /\ LET job == items[idx]
           new == job_name_new(args, job)
       IN  \/ /\ Raise(Call("copy_job", job, new, "error"))
              /\ UNCHANGED <<server, idx>>
           \/ /\ Returned(Call("copy_job", job, new, "ok"))
              /\ server' = [jobs |-> server.jobs \cup {new},
                            disabled |-> IF job \in server.disabled
                                         THEN server.disabled \cup {new}
                                         ELSE server.disabled \ {new}]
              /\ idx' = NextActive(args, items, idx + 1)
              /\ pc' = "loop"
    /\ UNCHANGED <<args, config, server0, stdout, client, profile,
                   configReads, items, rows>>

----------------------------------------------------------------------------
(* The table handlers *)

\* jenkins.get_nodes() of nodes_list
GetNodes ==
    /\ pc = "fetch"
    /\ args.cmd = "nodes-list"
    /\ \/ /\ Raise(Call("get_nodes", <<>>, <<>>, "error"))
          /\ UNCHANGED <<items, idx>>
       \/ \E seq \in SubsetOrderings(NodeNames) :
             /\ Returned(Call("get_nodes", <<>>, <<>>, "ok"))
             /\ items' = seq
             /\ idx' = 1
             /\ pc' = "loop"
    /\ UNCHANGED <<args, config, server, server0, stdout, client, profile,
                   configReads, rows>>

\* if jenkins.node_exists(node['name'])
nodes_list_exists ==
    /\ InBody
    /\ args.cmd = "nodes-list"
    /\ LET node == items[idx] IN
       \/ /\ Raise(Call("node_exists", node, <<>>, "error"))
          /\ UNCHANGED idx
       \/ \E exists \in BOOLEAN :
             /\ Returned(Call("node_exists", node, <<>>, Bool(exists)))
             /\ IF exists
                THEN UNCHANGED idx /\ pc' = "node_info"
                ELSE idx' = idx + 1 /\ pc' = "loop"
    /\ UNCHANGED <<args, config, server, server0, stdout, client, profile,
                   configReads, items, rows>>

\* ni = jenkins.get_node_info(node['name']) and t.add_row
nodes_list_info ==
    /\ pc = "node_info"
    /\ LET node == items[idx] IN
       \/ /\ Raise(Call("get_node_info", node, <<>>, "error"))
          /\ UNCHANGED <<idx, rows>>
       \/ /\ Returned(Call("get_node_info", node, <<>>, "ok"))
          /\ rows' = Append(rows, node)
          /\ idx' = idx + 1
          /\ pc' = "loop"
    /\ UNCHANGED <<args, config, server, server0, stdout, client, profile,
                   configReads, items>>

\* the row test of jobs_failing
Failing(a, info) == info.color = "red" /\ info.score <= a.max_score

\* the row test of jobs_unstable
Unstable(info) ==
    /\ info.lastUnstable # 0
    /\ info.lastUnstable = info.lastBuild

\* jenkins.get_job_info_regex(pattern) and the loop that fills the table
GetJobInfoRegex ==
    /\ pc = "fetch"
    /\ args.cmd \in {"jobs-failing", "jobs-unstable"}
    /\ \/ /\ Raise(Call("get_job_info_regex", args.job_name, <<>>, "error"))
          /\ UNCHANGED <<items, idx, rows>>
       \/ \E seq \in SeqsOf(Infos, 0..MaxInfos) :
             LET Keep(info) == IF args.cmd = "jobs-failing"
                               THEN Failing(args, info)
                               ELSE Unstable(info)
             IN  /\ Returned(Call("get_job_info_regex", args.job_name, <<>>,
                                  "ok"))
                 /\ items' = seq
                 /\ rows' = SelectSeq(seq, Keep)
                 /\ idx' = Len(seq) + 1
                 /\ pc' = "loop"
    /\ UNCHANGED <<args, config, server, server0, stdout, client, profile,
                   configReads>>

\* jenkins.get_running_builds() of builds_running
GetRunningBuilds ==
    /\ pc = "fetch"
    /\ args.cmd = "builds-running"
    /\ \/ /\ Raise(Call("get_running_builds", <<>>, <<>>, "error"))
          /\ UNCHANGED <<items, idx>>
       \/ \E seq \in SubsetOrderings(Builds) :
             /\ Returned(Call("get_running_builds", <<>>, <<>>, "ok"))
             /\ items' = seq
             /\ idx' = 1
             /\ pc' = "loop"
    /\ UNCHANGED <<args, config, server, server0, stdout, client, profile,
                   configReads, rows>>

\* loop body of builds_running: get_build_info and the age test
builds_running ==
    /\ InBody
    /\ args.cmd = "builds-running"
    /\ LET build == items[idx] IN
       \/ /\ Raise(Call("get_build_info", build.name, build.number, "error"))
          /\ UNCHANGED <<idx, rows>>
       \/ \E age \in Ages :
             /\ Returned(Call("get_build_info", build.name, build.number,
                              "ok"))
             /\ rows' = IF age > args.longer_than
                        THEN Append(rows, build) ELSE rows
             /\ idx' = idx + 1
             /\ pc' = "loop"
    /\ UNCHANGED <<args, config, server, server0, stdout, client, profile,
                   configReads, items>>

----------------------------------------------------------------------------
(* Initial states *)

Args(parse, cmd, p, name, only, pat, repl, score, longer) ==
    [parse |-> parse, cmd |-> cmd, config_profile |-> p, job_name |-> name,
     disabled_only |-> only, job_name_pattern |-> pat, job_name_repl |-> repl,
     max_score |-> score, longer_than |-> longer]

\* the command lines tried against every config file
ProfileArgs ==
    {Args(parse, "none", "default", <<>>, FALSE, <<"a">>, <<"b">>, 0, 0) :
        parse \in {"help", "error"}}
    \cup {Args("ok", cmd, p, <<".">>, FALSE, <<"a">>, <<"b">>, 0, 0) :
            cmd \in {"none"} \cup JobCommands \cup {"nodes-list"},
            p \in SectionNames}
    \cup {Args("ok", cmd, p, <<".">>, FALSE, <<"a">>, <<"b">>, score, 0) :
            cmd \in {"jobs-failing", "jobs-unstable"}, p \in SectionNames,
            score \in {0, 50}}
    \cup {Args("ok", "builds-running", p, <<".">>, FALSE, <<"a">>, <<"b">>, 0,
               longer) : p \in SectionNames, longer \in {0, 10}}

\* the command lines of the job handlers tried against every server
JobArgs ==
    {Args("ok", cmd, "default", name, FALSE, <<"a">>, <<"b">>, 0, 0) :
        cmd \in JobCommands \ {"jobs-copy"}, name \in Patterns}
    \cup {Args("ok", "jobs-delete", "default", name, TRUE, <<"a">>, <<"b">>,
               0, 0) : name \in Patterns}
    \cup {Args("ok", "jobs-copy", "default", name, FALSE, pat, repl, 0, 0) :
            name \in Patterns, pat \in SubPatterns, repl \in Repls}

ConfigFiles ==
    {[exists |-> FALSE, sections |-> [s \in {} |-> {}]]}
    \cup {[exists |-> TRUE, sections |-> s] :
            s \in UNION {[D -> SUBSET Keys] : D \in SUBSET SectionNames}}

GoodConfig == [exists |-> TRUE, sections |-> [s \in {"default"} |-> Keys]]

Servers ==
    UNION {{[jobs |-> J, disabled |-> D] : D \in SUBSET J} :
             J \in {J \in SUBSET JobNames : Cardinality(J) <= MaxJobs}}

OneJobServer == [jobs |-> {<<"a">>}, disabled |-> {}]

Init ==
    /\ \/ /\ args \in ProfileArgs
          /\ config \in ConfigFiles
          /\ server = OneJobServer
       \/ /\ args \in JobArgs
          /\ config = GoodConfig
          /\ server \in Servers
    /\ server0 = server
    /\ pc = "start"
    /\ exitStatus = -1
    /\ uncaught = FALSE
    /\ stdout = <<>>
    /\ calls = <<>>
    /\ client = NoClient
    /\ profile = NoProfile
    /\ configReads = 0
    /\ items = <<>>
    /\ idx = 1
    /\ rows = <<>>

Next ==
    \/ ParseArgs
    \/ MainGetProfile
    \/ Dispatch
    \/ HandlerSetup
    \/ GetJobs
    \/ jobs_disable
    \/ jobs_delete_info
    \/ jobs_delete
    \/ jobs_list
    \/ jobs_config
    \/ jobs_copy_exists
    \/ jobs_copy
    \/ GetNodes
    \/ nodes_list_exists
    \/ nodes_list_info
    \/ GetJobInfoRegex
    \/ GetRunningBuilds
    \/ builds_running
    \/ Finish

Spec == Init /\ [][Next]_vars

----------------------------------------------------------------------------
(* Vocabulary of the properties *)

IsSubCommandRun == args.parse = "ok" /\ args.cmd \in SubCommands
IsHelpOnlyRun == args.parse = "ok" /\ args.cmd = "none"
Exited == pc = "exited"

\* the state of the config file with respect to the requested profile
HasSection ==
    config.exists /\ args.config_profile \in DOMAIN config.sections
HasKey(k) == HasSection /\ k \in config.sections[args.config_profile]
ResolutionFails == ~config.exists \/ ~HasSection \/ \E k \in Keys : ~HasKey(k)

\* the errors of the contract, in the order they are tried
ErrorOrder ==
    <<[err |-> "FileMissing", field |-> "none", applies |-> ~config.exists],
      [err |-> "SectionMissing", field |-> "none", applies |-> ~HasSection],
      [err |-> "FieldMissing", field |-> "url", applies |-> ~HasKey("url")],
      [err |-> "FieldMissing", field |-> "user", applies |-> ~HasKey("user")],
      [err |-> "FieldMissing", field |-> "password",
       applies |-> ~HasKey("password")]>>
FirstError == Min({i \in 1..Len(ErrorOrder) : ErrorOrder[i].applies})

ErrorKinds == {"does not exist", "can not find section", "url not in profile",
               "user not in profile", "password not in profile"}
IsErrorLine(line) == line[1] \in ErrorKinds

CallIdx(ops) == {i \in 1..Len(calls) : calls[i].op \in ops}
OkCallIdx(ops) == {i \in CallIdx(ops) : calls[i].ret = "ok"}
FailedCalls == {i \in 1..Len(calls) : calls[i].ret = "error"}

ActionOps == {"disable_job", "delete_job", "copy_job", "get_job_config"}
StatusKinds == {"Disable job", "Deleted job"}
JobLineKinds == StatusKinds \cup {"job", "config", "Copy job"}

IsStatusLine(line) == line[1] \in StatusKinds
\* the jobs named by the status lines printed so far, in print order
StatusJobs ==
    LET lines == SelectSeq(stdout, IsStatusLine)
    IN  [i \in 1..Len(lines) |-> lines[i][2]]

IsApplied(c) == c.op \in {"disable_job", "delete_job"} /\ c.ret = "ok"
IsAttempted(c) == c.op \in {"disable_job", "delete_job"}
JobsOf(cs) == [i \in 1..Len(cs) |-> cs[i].a]
\* the jobs the action has been carried out on so far, in call order
AppliedJobs == JobsOf(SelectSeq(calls, IsApplied))
\* the jobs the action has been requested for so far, in call order
AttemptedJobs == JobsOf(SelectSeq(calls, IsAttempted))

Pos(name) == CHOOSE k \in 1..Len(items) : items[k] = name
\* s lists elements of items in the order get_jobs returned them
InItemsOrder(s) ==
    /\ \A i \in 1..Len(s) : \E k \in 1..Len(items) : items[k] = s[i]
    /\ \A i, j \in 1..Len(s) : i < j => Pos(s[i]) < Pos(s[j])

\* the pattern matches the whole name, not only a prefix of it
re_fullmatch(p, s) == MatchAt(p, s, 1) /\ Len(p) = Len(s)

MatchedIdx == {k \in 1..Len(items) : Selected(args, items[k])}

\* the handler ran to its end: the collection was fetched, the loop is over
\* and no remote call failed
HandlerCompleted ==
    /\ IsSubCommandRun
    /\ Exited
    /\ calls # <<>>
    /\ FailedCalls = {}
    /\ idx > Len(items)

----------------------------------------------------------------------------
(* C1 *)

\* C1: a run without a sub-command prints the help and exits 0 and never
\* checks or reads the config file nor starts profile resolution
C1_HelpOnlyNeverReadsConfig ==
    IsHelpOnlyRun =>
        /\ configReads = 0
        /\ profile = NoProfile
        /\ Exited => exitStatus = 0 /\ stdout = <<<<"help">>>>

----------------------------------------------------------------------------
(* C2 *)

\* C2: for every sub-command, when profile resolution fails the run prints
\* one message and exits with status 1, and no client was built and no
\* remote call was made
C2_ConfigFailureBeforeSideEffects ==
    (IsSubCommandRun /\ ResolutionFails) =>
        /\ client = NoClient
        /\ calls = <<>>
        /\ server = server0
        /\ pc \in {"start", "main_profile", "exited"}
        /\ Exited => /\ exitStatus = 1
                     /\ ~uncaught
                     /\ Len(stdout) = 1
                     /\ IsErrorLine(stdout[1])

C2_Witness ==
    /\ IsSubCommandRun
    /\ args.cmd = "jobs-disable"
    /\ HasSection
    /\ ~HasKey("password")
    /\ Exited
    /\ exitStatus = 1

----------------------------------------------------------------------------
(* C3 *)

\* C3: _get_profile returns the triple of the requested section iff the
\* file, the section and the three keys are there, and otherwise fails with
\* the first error of FileMissing, SectionMissing, FieldMissing(url),
\* FieldMissing(user), FieldMissing(password) that applies, and only that
C3_ProfileResolution ==
    configReads > 0 =>
        /\ profile.ok <=> (config.exists /\ HasSection
                           /\ \A k \in Keys : HasKey(k))
        /\ profile.ok =>
              /\ profile.triple =
                    [k \in Keys |-> Value(args.config_profile, k)]
              /\ \A i \in 1..Len(stdout) : ~IsErrorLine(stdout[i])
        /\ ~profile.ok =>
              /\ profile.err = ErrorOrder[FirstError].err
              /\ profile.field = ErrorOrder[FirstError].field
              /\ stdout = <<profile.msg>>
              /\ Exited /\ exitStatus = 1
        /\ (HasKey("url") /\ HasKey("user") /\ ~HasKey("password")) =>
              profile.err = "FieldMissing" /\ profile.field = "password"

C3_Witness ==
    /\ configReads > 0
    /\ HasKey("url") /\ HasKey("user") /\ ~HasKey("password")
    /\ profile.err = "FieldMissing"
    /\ profile.field = "password"
    /\ Exited

----------------------------------------------------------------------------
(* C4 *)

\* C4: in the job handlers only jobs whose whole name matches the pattern
\* are passed to disable_job, delete_job, copy_job or get_job_config or
\* printed
C4_OnlyFullMatchesActedUpon ==
    (args.parse = "ok" /\ args.cmd \in JobCommands) =>
        /\ \A i \in CallIdx(ActionOps) :
              re_fullmatch(args.job_name, calls[i].a)
        /\ \A i \in 1..Len(stdout) :
              stdout[i][1] \in JobLineKinds =>
                 re_fullmatch(args.job_name, stdout[i][2])

----------------------------------------------------------------------------
(* C5 *)

\* C5: jobs-copy issues no job_exists and no copy_job for a matched job that
\* the substitution leaves unchanged, and copy_job never gets a target equal
\* to its source
C5_NoCopyOntoItself ==
    args.cmd = "jobs-copy" =>
        /\ \A i \in CallIdx({"copy_job"}) : calls[i].a # calls[i].b
        /\ \A k \in MatchedIdx :
              job_name_new(args, items[k]) = items[k] =>
                 /\ \A i \in CallIdx({"copy_job"}) : calls[i].a # items[k]
                 /\ \A i \in CallIdx({"job_exists"}) :
                       calls[i].b # items[k] /\ calls[i].a # calls[i].b

C5_Witness ==
    /\ args.cmd = "jobs-copy"
    /\ Exited /\ exitStatus = 0
    /\ \E k \in MatchedIdx : job_name_new(args, items[k]) = items[k]
    /\ OkCallIdx({"copy_job"}) # {}

----------------------------------------------------------------------------
(* C6 *)

\* C6: the exit status is 0 exactly for a help-only run or a completed
\* handler and 1 exactly when profile resolution failed
C6_ExitStatus ==
    Exited =>
        /\ exitStatus = 0 <=>
              (args.parse = "help" \/ IsHelpOnlyRun \/ HandlerCompleted)
        /\ exitStatus = 1 <=> (configReads > 0 /\ ~profile.ok)

----------------------------------------------------------------------------
(* C7 *)

\* C7 as stated: in jobs-disable and jobs-delete the status lines printed so
\* far name exactly the jobs the action has been applied to, in get_jobs
\* order, also in a run cut short by a failing remote call
C7_StatusLinesNameAppliedJobs ==
    args.cmd \in {"jobs-disable", "jobs-delete"} =>
        /\ StatusJobs = AppliedJobs
        /\ InItemsOrder(StatusJobs)

\* C7 amended: in jobs-delete the status lines name exactly the deleted
\* jobs; in jobs-disable the line is printed before the call, so the lines
\* name exactly the jobs disable_job was called for, and the disabled jobs
\* are those but the last one when that call failed; all in get_jobs order
C7_StatusLinesAmended ==
    /\ args.cmd = "jobs-delete" =>
          /\ StatusJobs = AppliedJobs
          /\ InItemsOrder(StatusJobs)
    /\ args.cmd = "jobs-disable" =>
          /\ StatusJobs = AttemptedJobs
          /\ InItemsOrder(StatusJobs)
          /\ AppliedJobs = IF FailedCalls \cap CallIdx({"disable_job"}) = {}
                           THEN StatusJobs
                           ELSE SubSeq(StatusJobs, 1, Len(StatusJobs) - 1)

C7_Witness ==
    /\ args.cmd = "jobs-disable"
    /\ Exited
    /\ Len(StatusJobs) = 2
    /\ Len(AppliedJobs) = 1

----------------------------------------------------------------------------
(* C8 *)

\* C8: in jobs-disable, jobs-delete and jobs-copy a failing remote call is
\* the last call of the run (no retry, no later job acted upon), the run
\* does not exit with status 0, and what was applied before stays applied
C8_FailureStopsWithoutRollback ==
    args.cmd \in {"jobs-disable", "jobs-delete", "jobs-copy"} =>
        /\ \A i \in FailedCalls :
              /\ i = Len(calls)
              /\ Exited
              /\ exitStatus # 0
              /\ uncaught
        /\ \A i \in OkCallIdx({"disable_job"}) :
              calls[i].a \in server.disabled
        /\ \A i \in OkCallIdx({"delete_job"}) : calls[i].a \notin server.jobs
        /\ \A i \in OkCallIdx({"copy_job"}) : calls[i].b \in server.jobs

C8_Witness ==
    /\ args.cmd = "jobs-delete"
    /\ Exited
    /\ \E i \in FailedCalls : calls[i].op = "delete_job"
    /\ OkCallIdx({"delete_job"}) # {}

----------------------------------------------------------------------------
(* C9 *)

\* C9: with --disabled-only delete_job is called for a matched job iff
\* get_job_info reported it disabled; without the flag get_job_info is
\* never called and every matched job is deleted
C9_DisabledOnly ==
    args.cmd = "jobs-delete" =>
        /\ args.disabled_only =>
              /\ \A i \in CallIdx({"delete_job"}) :
                    /\ i > 1
                    /\ calls[i - 1] =
                          Call("get_job_info", calls[i].a, <<>>, "true")
              /\ \A i \in CallIdx({"get_job_info"}) :
                    /\ calls[i].ret = "true" =>
                          IF i = Len(calls)
                          THEN pc = "delete" /\ items[idx] = calls[i].a
                          ELSE /\ calls[i + 1].op = "delete_job"
                               /\ calls[i + 1].a = calls[i].a
                    /\ calls[i].ret = "false" =>
                          /\ \A j \in CallIdx({"delete_job"}) :
                                calls[j].a # calls[i].a
                          /\ calls[i].a \in server.jobs
              /\ HandlerCompleted =>
                    \A k \in MatchedIdx :
                       items[k] \in server.jobs <=>
                          items[k] \notin server0.disabled
        /\ ~args.disabled_only =>
              /\ CallIdx({"get_job_info"}) = {}
              /\ \A k \in MatchedIdx :
                    k < idx => \E i \in CallIdx({"delete_job"}) :
                                  calls[i].a = items[k]
              /\ HandlerCompleted =>
                    \A k \in MatchedIdx : items[k] \notin server.jobs

C9_Witness ==
    /\ args.cmd = "jobs-delete"
    /\ args.disabled_only
    /\ HandlerCompleted
    /\ \E i \in CallIdx({"get_job_info"}) : calls[i].ret = "false"
    /\ OkCallIdx({"delete_job"}) # {}

----------------------------------------------------------------------------
(* C10 *)

\* C10: jobs-copy issues copy_job only right after job_exists(target)
\* answered false in the same iteration, so no copy targets a job that was
\* on the server at the start or was created by an earlier copy of the run
C10_CopyNeverOverwrites ==
    args.cmd = "jobs-copy" =>
        \A i \in CallIdx({"copy_job"}) :
           /\ i > 1
           /\ calls[i - 1] = Call("job_exists", calls[i].b, calls[i].a, "false")
           /\ calls[i].b \notin server0.jobs
           /\ \A j \in OkCallIdx({"copy_job"}) :
                 j < i => calls[j].b # calls[i].b

C10_Witness ==
    /\ args.cmd = "jobs-copy"
    /\ HandlerCompleted
    /\ \E i \in OkCallIdx({"copy_job"}) :
          \E j \in CallIdx({"job_exists"}) :
             /\ j > i
             /\ calls[j].a = calls[i].b
             /\ calls[j].b # calls[i].a
             /\ calls[j].ret = "true"
             /\ calls[j].a \notin server0.jobs

====
